---- MODULE Spec2Model ----
(***************************************************************************)
(* Model of the frame orchestrator of OctoEngine (src/src/game.rs):        *)
(* struct Game, its shader / pipeline / bind-group slots, hot_reload,      *)
(* init, prepare_rendering, render and resize, run against a handle arena  *)
(* (RendererContext) and a polled file watcher (FileWatcher).              *)
(*                                                                         *)
(* Every handler is one action.  A handler is a sequence of calls on the   *)
(* renderer; the sequence is threaded through a record w ("world") with    *)
(* the fields game, rm, calls, status and ret, so that a panic or a fatal  *)
(* error in the middle of a handler stops the rest of it.                  *)
(***************************************************************************)
EXTENDS Integers, Sequences, FiniteSets, TLC

VARIABLES
    game,       \* the fields of struct Game that hold handles and sizes
    rm,         \* RendererContext: the arenas of live GPU objects
    queue,      \* FileWatcher: buffered change notifications
    emitted,    \* number of notifications the watcher thread has produced
    status,     \* "running" | "panicked" (Option::unwrap on None) | "fatal"
    phase,      \* "new" | "idle" | "prepared": position in the frame loop
    calls,      \* renderer calls issued by the last handler, in order
    frame,      \* commands the last handler recorded into the Frame
    lastOp      \* name of the last handler that ran

vars == <<game, rm, queue, emitted, status, phase, calls, frame, lastOp>>

----------------------------------------------------------------------------
(* Bounds of the model *)

MaxEvents == 2      \* notifications produced by the watcher in one run
MaxFrames == 2      \* frames prepared in one run

----------------------------------------------------------------------------
(* Program constants *)

None == 0           \* Option::None in a handle slot; handles are 1, 2, ...
InitWidth == 800
InitHeight == 600
DrawVertices == 3
DrawInstances == 1

Stages == {"render", "compute"}

Resolutions == {<<InitWidth, InitHeight>>, <<1024, 768>>}

----------------------------------------------------------------------------
(* Watcher events.  A path is what hot_reload looks at: whether            *)
(* make_relative_path resolves it, and the file stem of the result.        *)

Path(resolves, stem) == [resolves |-> resolves, stem |-> stem]

Paths ==
    { Path(TRUE, "render"), Path(TRUE, "compute"), Path(TRUE, "noise"),
      Path(FALSE, "render") }

ShaderPaths == { Path(TRUE, "render"), Path(TRUE, "compute") }

(* A notification names one path, or two (the two ends of a rename, or    *)
(* two changes reported together): any path, then one of the two shaders.  *)
PathLists ==
    { <<p>> : p \in Paths } \cup { <<p, q>> : p \in Paths, q \in ShaderPaths }

Events ==
    { [kind |-> "Modify", paths |-> p] : p \in PathLists }
      \cup { [kind |-> "Create", paths |-> <<Path(TRUE, "render")>>] }

NoEvent == [kind |-> "None", paths |-> <<>>]

----------------------------------------------------------------------------
(* The world record threaded through a handler *)

World(g, r) ==
    [game |-> g, rm |-> r, calls |-> <<>>, frame |-> <<>>, status |-> "running",
     ret |-> None]

Running(w) == w.status = "running"

Call(name, stage, handle, valid) ==
    [call |-> name, stage |-> stage, handle |-> handle, valid |-> valid]

Log(w, c) == [w EXCEPT !.calls = Append(@, c)]

Fatal(w) == [w EXCEPT !.status = "fatal"]

Panic(w) == [w EXCEPT !.status = "panicked"]

----------------------------------------------------------------------------
(* RendererContext: one arena per kind of GPU object.  A handle is valid   *)
(* from its creation to its destruction and is never issued twice.         *)
(* Destroying or using a handle that is not live is a contract violation,  *)
(* which is fatal.                                                         *)

Fresh(w, kind) == w.rm.next[kind]

Bump(r, kind) == [r EXCEPT !.next[kind] = @ + 1]

Remove(f, h) == [x \in (DOMAIN f) \ {h} |-> f[x]]

LivePipelines(r, stage) ==
    IF stage = "render" THEN DOMAIN r.render_pipelines ELSE DOMAIN r.compute_pipelines

new_shader(w, stage, compiles) ==
    IF ~Running(w) THEN w
    ELSE IF compiles
         THEN LET h == Fresh(w, "shader") IN
              [Log(w, Call("new_shader", stage, h, TRUE))
                 EXCEPT !.rm = [Bump(@, "shader") EXCEPT !.shaders = @ \cup {h}],
                        !.ret = h]
         ELSE [Log(w, Call("new_shader", stage, None, TRUE)) EXCEPT !.ret = None]

destroy_shader(w, stage, h) ==
    IF ~Running(w) THEN w
    ELSE IF h \in w.rm.shaders
         THEN [Log(w, Call("destroy_shader", stage, h, TRUE))
                 EXCEPT !.rm.shaders = @ \ {h}]
         ELSE Fatal(Log(w, Call("destroy_shader", stage, h, FALSE)))

new_render_pipeline(w, shader) ==
    IF ~Running(w) THEN w
    ELSE IF shader \in w.rm.shaders
         THEN LET h == Fresh(w, "render_pipeline") IN
              [Log(w, Call("new_render_pipeline", "render", h, TRUE))
                 EXCEPT !.rm = [Bump(@, "render_pipeline")
                                  EXCEPT !.render_pipelines = @ @@ (h :> shader)],
                        !.ret = h]
         ELSE Fatal(Log(w, Call("new_render_pipeline", "render", shader, FALSE)))

new_compute_pipeline(w, shader) ==
    IF ~Running(w) THEN w
    ELSE IF shader \in w.rm.shaders
         THEN LET h == Fresh(w, "compute_pipeline") IN
              [Log(w, Call("new_compute_pipeline", "compute", h, TRUE))
                 EXCEPT !.rm = [Bump(@, "compute_pipeline")
                                  EXCEPT !.compute_pipelines = @ @@ (h :> shader)],
                        !.ret = h]
         ELSE Fatal(Log(w, Call("new_compute_pipeline", "compute", shader, FALSE)))

destroy_render_pipeline(w, h) ==
    IF ~Running(w) THEN w
    ELSE IF h \in DOMAIN w.rm.render_pipelines
         THEN [Log(w, Call("destroy_render_pipeline", "render", h, TRUE))
                 EXCEPT !.rm.render_pipelines = Remove(@, h)]
         ELSE Fatal(Log(w, Call("destroy_render_pipeline", "render", h, FALSE)))

destroy_compute_pipeline(w, h) ==
    IF ~Running(w) THEN w
    ELSE IF h \in DOMAIN w.rm.compute_pipelines
         THEN [Log(w, Call("destroy_compute_pipeline", "compute", h, TRUE))
                 EXCEPT !.rm.compute_pipelines = Remove(@, h)]
         ELSE Fatal(Log(w, Call("destroy_compute_pipeline", "compute", h, FALSE)))

(* new_compute_bind_group / new_render_bind_group: the bind group records  *)
(* the pipeline whose layout it was created for and the output texture it  *)
(* binds (the buffers of Globals and Camera and the world texture are      *)
(* never replaced).                                                        *)
new_bind_group(w, stage, pipeline, texture) ==
    IF ~Running(w) THEN w
    ELSE IF pipeline \in LivePipelines(w.rm, stage) /\ texture \in DOMAIN w.rm.textures
         THEN LET h == Fresh(w, "bind_group") IN
              [Log(w, Call("new_bind_group", stage, h, TRUE))
                 EXCEPT !.rm = [Bump(@, "bind_group")
                                  EXCEPT !.bind_groups = @ @@
                                     (h :> [stage |-> stage, pipeline |-> pipeline,
                                            texture |-> texture])],
                        !.ret = h]
         ELSE Fatal(Log(w, Call("new_bind_group", stage, pipeline, FALSE)))

destroy_bind_group(w, stage, h) ==
    IF ~Running(w) THEN w
    ELSE IF h \in DOMAIN w.rm.bind_groups
         THEN [Log(w, Call("destroy_bind_group", stage, h, TRUE))
                 EXCEPT !.rm.bind_groups = Remove(@, h)]
         ELSE Fatal(Log(w, Call("destroy_bind_group", stage, h, FALSE)))

(* RendererContext::resize: the surface takes the new resolution. *)
resize_surface(w, size) ==
    IF ~Running(w) THEN w
    ELSE [Log(w, Call("resize", "surface", None, TRUE)) EXCEPT !.rm.surface = size]

(* RendererContext::update_texture: the texture behind the handle is       *)
(* rebuilt from the descriptor; the handle stays the same.                 *)
update_texture(w, h, size) ==
    IF ~Running(w) THEN w
    ELSE IF h \in DOMAIN w.rm.textures
         THEN [Log(w, Call("update_texture", "texture", h, TRUE))
                 EXCEPT !.rm.textures[h] = size]
         ELSE Fatal(Log(w, Call("update_texture", "texture", h, FALSE)))

(* Globals::update_buffer: the CPU-side size is written to the buffer. *)
update_globals_buffer(w) ==
    IF ~Running(w) THEN w
    ELSE [Log(w, Call("update_buffer", "globals", None, TRUE))
            EXCEPT !.rm.globals_buffer = w.game.globals_size]


(* Frame::begin_compute_pass / begin_render_pass, ComputePass::dispatch    *)
(* and RenderPass::draw append to the frame's command stream; a pass bound *)
(* to a pipeline or bind group that is not live is a contract violation.   *)
Cmd(name, a, b, c) == [cmd |-> name, a |-> a, b |-> b, c |-> c]

Record(w, c) == IF ~Running(w) THEN w ELSE [w EXCEPT !.frame = Append(@, c)]

begin_pass(w, stage, pipeline, bind_group) ==
    IF ~Running(w) THEN w
    ELSE IF pipeline \in LivePipelines(w.rm, stage) /\ bind_group \in DOMAIN w.rm.bind_groups
         THEN Record(w, Cmd(IF stage = "compute" THEN "begin_compute_pass"
                                                  ELSE "begin_render_pass",
                            pipeline, bind_group, 0))
         ELSE Fatal(w)

----------------------------------------------------------------------------
(* Numeric conversions of resize and render: `width as f32` rounds to the  *)
(* nearest value with a 24-bit significand (ties to even); `x as u32`      *)
(* truncates and saturates.  Sizes are whole numbers below 2^31, so only   *)
(* the saturation at zero can show.                                        *)

RECURSIVE Ulp(_, _)
Ulp(n, u) == IF n < 16777216 * u THEN u ELSE Ulp(n, 2 * u)

AsF32(n) ==
    LET u == Ulp(n, 1)
        q == n \div u
        r == n % u
    IN  IF 2 * r < u THEN q * u
        ELSE IF 2 * r > u THEN (q + 1) * u
        ELSE IF q % 2 = 0 THEN q * u ELSE (q + 1) * u

AsU32(x) == IF x < 0 THEN 0 ELSE x

----------------------------------------------------------------------------
(* struct Game *)

Set(w, slot, v) == IF Running(w) THEN [w EXCEPT !.game[slot] = v] ELSE w

(* Option::unwrap *)
Unwrap(w, v) == IF Running(w) /\ v = None THEN Panic(w) ELSE w

(* Game::create_shader: read the source file and compile it; a compile     *)
(* error is printed and None is returned.  src[stage] tells whether the    *)
(* file's present content compiles.                                        *)
create_shader(w, stage, src) == new_shader(w, stage, src[stage])

create_render_pipeline(w, shader) == new_render_pipeline(w, shader)

create_compute_pipeline(w, shader) == new_compute_pipeline(w, shader)

(* hot_reload, file_stem == "render" *)
ReloadRender(w, src) ==
    LET w1 == IF w.game.render_shader # None
              THEN destroy_shader(w, "render", w.game.render_shader) ELSE w
        w2 == IF w1.game.render_pipeline # None
              THEN destroy_render_pipeline(w1, w1.game.render_pipeline) ELSE w1
        w3 == create_shader(w2, "render", src)
        w4 == Set(w3, "render_shader", w3.ret)
        w5 == create_render_pipeline(w4, w4.game.render_shader)
    IN  IF w4.game.render_shader # None
        THEN Set(w5, "render_pipeline", w5.ret)
        ELSE w4

(* ReloadCompute, had it forgotten to destroy the shader it replaces *)
ReloadCompute_KeepsShader(w, src) ==
    LET w2 == IF w.game.compute_pipeline # None
              THEN destroy_compute_pipeline(w, w.game.compute_pipeline) ELSE w
        w3 == create_shader(w2, "compute", src)
        w4 == Set(w3, "compute_shader", w3.ret)
        w5 == create_compute_pipeline(w4, w4.game.compute_shader)
    IN  IF w4.game.compute_shader # None
        THEN Set(w5, "compute_pipeline", w5.ret)
        ELSE w4

(* hot_reload, file_stem == "compute" *)
ReloadCompute(w, src) ==
    LET w1 == IF w.game.compute_shader # None
              THEN destroy_shader(w, "compute", w.game.compute_shader) ELSE w
        w2 == IF w1.game.compute_pipeline # None
              THEN destroy_compute_pipeline(w1, w1.game.compute_pipeline) ELSE w1
        w3 == create_shader(w2, "compute", src)
        w4 == Set(w3, "compute_shader", w3.ret)
        w5 == create_compute_pipeline(w4, w4.game.compute_shader)
    IN  IF w4.game.compute_shader # None
        THEN Set(w5, "compute_pipeline", w5.ret)
        ELSE w4

(* utils::make_relative_path: Ok for a path under the working directory *)
make_relative_path(path) == path.resolves

(* ReloadPath, had the compute branch been an `if` of its own that a       *)
(* render path also enters                                                 *)
ReloadPath_FallsThrough(w, path, src) ==
    IF ~Running(w) THEN w
    ELSE IF ~make_relative_path(path) THEN w
    ELSE IF path.stem = "render" THEN ReloadCompute(ReloadRender(w, src), src)
    ELSE IF path.stem = "compute" THEN ReloadCompute(w, src)
    ELSE w

(* ReloadPath, had it taken the file stem of the path as notified, without *)
(* looking at the result of make_relative_path                             *)
ReloadPath_IgnoresResolve(w, path, src) ==
    IF ~Running(w) THEN w
    ELSE IF path.stem = "render" THEN ReloadRender(w, src)
    ELSE IF path.stem = "compute" THEN ReloadCompute(w, src)
    ELSE w

(* hot_reload, the body of the loop over watcher_event.paths *)
ReloadPath(w, path, src) ==
    IF ~Running(w) THEN w
    ELSE IF ~make_relative_path(path) THEN w
    ELSE IF path.stem = "render" THEN ReloadRender(w, src)
    ELSE IF path.stem = "compute" THEN ReloadCompute(w, src)
    ELSE w

RECURSIVE ReloadPaths(_, _, _)
ReloadPaths(w, paths, src) ==
    IF paths = <<>> THEN w
    ELSE ReloadPaths(ReloadPath(w, Head(paths), src), Tail(paths), src)

(* Game::hot_reload, given the result of file_watcher.get_event() *)
hot_reload(w, ev, src) ==
    IF ev = NoEvent THEN w
    ELSE IF ev.kind = "Modify" THEN ReloadPaths(w, ev.paths, src)
    ELSE w

(* init, had it returned as soon as the render shader failed to compile *)
init_StopsOnFailure(w, src) ==
    LET w1 == create_shader(w, "render", src)
        w2 == Set(w1, "render_shader", w1.ret)
        w3 == create_shader(w2, "compute", src)
        w4 == Set(w3, "compute_shader", w3.ret)
        p5 == create_render_pipeline(w4, w4.game.render_shader)
        w5 == Set(p5, "render_pipeline", p5.ret)
        p6 == create_compute_pipeline(w5, w5.game.compute_shader)
    IN  IF w2.game.render_shader = None THEN w2
        ELSE IF w5.game.compute_shader # None
        THEN Set(p6, "compute_pipeline", p6.ret)
        ELSE w5

(* System::init (the voxel fill and the camera position hold no handles) *)
init(w, src) ==
    LET w1 == create_shader(w, "render", src)
        w2 == Set(w1, "render_shader", w1.ret)
        w3 == create_shader(w2, "compute", src)
        w4 == Set(w3, "compute_shader", w3.ret)
        w5 == IF w4.game.render_shader # None
              THEN LET p == create_render_pipeline(w4, w4.game.render_shader)
                   IN  Set(p, "render_pipeline", p.ret)
              ELSE w4
    IN  IF w5.game.compute_shader # None
        THEN LET p == create_compute_pipeline(w5, w5.game.compute_shader)
             IN  Set(p, "compute_pipeline", p.ret)
        ELSE w5

(* System::prepare_rendering (camera.update_buffer and world.update_texture *)
(* write into buffers and textures that are never replaced)                *)
prepare_rendering(w) ==
    LET w1 == IF w.game.compute_bind_group # None
              THEN destroy_bind_group(w, "compute", w.game.compute_bind_group) ELSE w
        w2 == Unwrap(w1, w1.game.compute_pipeline)
        w3 == new_bind_group(w2, "compute", w2.game.compute_pipeline,
                             w2.game.output_texture)
        w4 == Set(w3, "compute_bind_group", w3.ret)
        w5 == IF w4.game.render_bind_group # None
              THEN destroy_bind_group(w4, "render", w4.game.render_bind_group) ELSE w4
        w6 == Unwrap(w5, w5.game.render_pipeline)
        w7 == new_bind_group(w6, "render", w6.game.render_pipeline,
                             w6.game.output_texture)
    IN  Set(w7, "render_bind_group", w7.ret)

(* render, had it recorded the render pass before the compute pass *)
render_RenderFirst(w) ==
    LET w1 == Unwrap(Unwrap(w, w.game.render_pipeline), w.game.render_bind_group)
        w2 == begin_pass(w1, "render", w1.game.render_pipeline,
                         w1.game.render_bind_group)
        w3 == Record(w2, Cmd("draw", DrawVertices, DrawInstances, 0))
        w4 == Unwrap(Unwrap(w3, w3.game.compute_pipeline), w3.game.compute_bind_group)
        w5 == begin_pass(w4, "compute", w4.game.compute_pipeline,
                         w4.game.compute_bind_group)
    IN  Record(w5, Cmd("dispatch", AsU32(w5.game.globals_size[1]),
                       AsU32(w5.game.globals_size[2]), 1))

(* render, had it divided the grid by a workgroup size of 8 x 8 *)
render_DividedGrid(w) ==
    LET w1 == Unwrap(Unwrap(w, w.game.compute_pipeline), w.game.compute_bind_group)
        w2 == begin_pass(w1, "compute", w1.game.compute_pipeline,
                         w1.game.compute_bind_group)
        w3 == Record(w2, Cmd("dispatch", (AsU32(w2.game.globals_size[1]) + 7) \div 8,
                             (AsU32(w2.game.globals_size[2]) + 7) \div 8, 1))
        w4 == Unwrap(Unwrap(w3, w3.game.render_pipeline), w3.game.render_bind_group)
        w5 == begin_pass(w4, "render", w4.game.render_pipeline,
                         w4.game.render_bind_group)
    IN  Record(w5, Cmd("draw", DrawVertices, DrawInstances, 0))

(* System::render *)
render(w) ==
    LET w1 == Unwrap(Unwrap(w, w.game.compute_pipeline), w.game.compute_bind_group)
        w2 == begin_pass(w1, "compute", w1.game.compute_pipeline,
                         w1.game.compute_bind_group)
        w3 == Record(w2, Cmd("dispatch", AsU32(w2.game.globals_size[1]),
                             AsU32(w2.game.globals_size[2]), 1))
        w4 == Unwrap(Unwrap(w3, w3.game.render_pipeline), w3.game.render_bind_group)
        w5 == begin_pass(w4, "render", w4.game.render_pipeline,
                         w4.game.render_bind_group)
    IN  Record(w5, Cmd("draw", DrawVertices, DrawInstances, 0))

(* resize, had it left out globals.update_buffer *)
resize_NoPush(w, width, height) ==
    LET w1 == resize_surface(w, <<width, height>>)
        w2 == update_texture(w1, w1.game.output_texture, <<width, height>>)
    IN  Set(w2, "globals_size", <<AsF32(width), AsF32(height)>>)

(* resize, had it pushed the globals buffer before setting the new size *)
resize_PushFirst(w, width, height) ==
    LET w1 == resize_surface(w, <<width, height>>)
        w2 == update_texture(w1, w1.game.output_texture, <<width, height>>)
        w3 == update_globals_buffer(w2)
    IN  Set(w3, "globals_size", <<AsF32(width), AsF32(height)>>)

(* resize, had it created a second texture and dropped the old handle      *)
(* without destroying it                                                   *)
resize_NewTexture(w, width, height) ==
    LET w1 == resize_surface(w, <<width, height>>)
        h  == Fresh(w1, "texture")
        w2 == IF ~Running(w1) THEN w1
              ELSE [Log(w1, Call("new_texture", "texture", h, TRUE))
                      EXCEPT !.rm = [Bump(@, "texture")
                                       EXCEPT !.textures = @ @@ (h :> <<width, height>>)],
                             !.game.output_texture = h]
        w3 == Set(w2, "globals_size", <<AsF32(width), AsF32(height)>>)
    IN  update_globals_buffer(w3)

(* System::resize *)
resize(w, width, height) ==
    LET w1 == resize_surface(w, <<width, height>>)
        w2 == update_texture(w1, w1.game.output_texture, <<width, height>>)
        w3 == Set(w2, "globals_size", <<AsF32(width), AsF32(height)>>)
    IN  update_globals_buffer(w3)


----------------------------------------------------------------------------
(* The state machine *)

(* Game::new: the output texture is created at 800x600, Globals holds the  *)
(* same size, every shader, pipeline and bind-group slot is None.          *)
Init ==
    /\ game = [compute_shader |-> None, compute_pipeline |-> None,
               compute_bind_group |-> None,
               render_shader |-> None, render_pipeline |-> None,
               render_bind_group |-> None,
               output_texture |-> 1,
               globals_size |-> <<AsF32(InitWidth), AsF32(InitHeight)>>]
    /\ rm = [shaders |-> {},
             render_pipelines |-> <<>>,
             compute_pipelines |-> <<>>,
             bind_groups |-> <<>>,
             textures |-> (1 :> <<InitWidth, InitHeight>>),
             next |-> [shader |-> 1, render_pipeline |-> 1, compute_pipeline |-> 1,
                       bind_group |-> 1, texture |-> 2],
             surface |-> <<InitWidth, InitHeight>>,
             globals_buffer |-> <<AsF32(InitWidth), AsF32(InitHeight)>>]
    /\ queue = <<>>
    /\ emitted = 0
    /\ status = "running"
    /\ phase = "new"
    /\ calls = <<>>
    /\ frame = <<>>
    /\ lastOp = "new"

(* What the shader files hold when a handler reads them: src[stage] is     *)
(* TRUE when the file compiles.  Only the files a notification names can   *)
(* be read by the hot_reload that takes it; the others are left at TRUE.   *)
Sources(ev) ==
    { src \in [Stages -> BOOLEAN] :
        \A st \in Stages :
          (\A i \in DOMAIN ev.paths : ev.paths[i].stem # st) => src[st] }

Commit(w) ==
    /\ game' = w.game
    /\ rm' = w.rm
    /\ calls' = w.calls
    /\ frame' = w.frame
    /\ status' = w.status

FramesPrepared == (rm.next["bind_group"] - 1) \div 2

(* The watcher thread buffers one more notification. *)
WatcherNotify ==
    /\ status = "running"
    /\ emitted < MaxEvents
    /\ \E ev \in Events : queue' = Append(queue, ev)
    /\ emitted' = emitted + 1
    /\ UNCHANGED <<game, rm, status, phase, calls, frame, lastOp>>

SystemInit ==
    /\ status = "running"
    /\ phase = "new"
    /\ \E src \in [Stages -> BOOLEAN] : Commit(init(World(game, rm), src))
    /\ phase' = "idle"
    /\ lastOp' = "init"
    /\ UNCHANGED <<queue, emitted>>

(* hot_reload, had it polled the watcher in a `while let` loop until the   *)
(* queue was empty                                                         *)
RECURSIVE DrainEvents(_, _, _)
DrainEvents(w, q, src) ==
    IF q = <<>> THEN w ELSE DrainEvents(hot_reload(w, Head(q), src), Tail(q), src)

HotReload_Drains ==
    /\ status = "running"
    /\ phase = "idle"
    /\ \E src \in [Stages -> BOOLEAN] : Commit(DrainEvents(World(game, rm), queue, src))
    /\ queue' = <<>>
    /\ lastOp' = "hot_reload"
    /\ UNCHANGED <<emitted, phase>>

(* FileWatcher::get_event takes the oldest buffered notification, if any,  *)
(* and never blocks.                                                       *)
HotReload ==
    /\ status = "running"
    /\ phase = "idle"
    /\ LET ev == IF queue = <<>> THEN NoEvent ELSE Head(queue) IN
         /\ \E src \in Sources(ev) : Commit(hot_reload(World(game, rm), ev, src))
         /\ queue' = IF queue = <<>> THEN queue ELSE Tail(queue)
         /\ lastOp' = "hot_reload"
    /\ UNCHANGED <<emitted, phase>>

Resize ==
    /\ status = "running"
    /\ phase = "idle"
    /\ \E res \in Resolutions :
         /\ Commit(resize(World(game, rm), res[1], res[2]))
         /\ lastOp' = "resize"
    /\ UNCHANGED <<queue, emitted, phase>>

PrepareRendering ==
    /\ status = "running"
    /\ phase = "idle"
    /\ FramesPrepared < MaxFrames
    /\ Commit(prepare_rendering(World(game, rm)))
    /\ phase' = "prepared"
    /\ lastOp' = "prepare_rendering"
    /\ UNCHANGED <<queue, emitted>>

Render ==
    /\ status = "running"
    /\ phase = "prepared"
    /\ Commit(render(World(game, rm)))
    /\ phase' = "idle"
    /\ lastOp' = "render"
    /\ UNCHANGED <<queue, emitted>>

Next ==
    \/ WatcherNotify
    \/ SystemInit
    \/ HotReload
    \/ Resize
    \/ PrepareRendering
    \/ Render

Spec == Init /\ [][Next]_vars


----------------------------------------------------------------------------
(* Vocabulary of the properties *)

ShaderOf(st) == IF st = "render" THEN game.render_shader ELSE game.compute_shader

PipelineOf(st) == IF st = "render" THEN game.render_pipeline ELSE game.compute_pipeline

BindGroupOf(st) ==
    IF st = "render" THEN game.render_bind_group ELSE game.compute_bind_group

PipelineArena(st) ==
    IF st = "render" THEN rm.render_pipelines ELSE rm.compute_pipelines

LivePipeline(st) == PipelineOf(st) \in DOMAIN PipelineArena(st)

(* the pipeline in the slot is live and was built from a shader still live *)
SoundPipeline(st) ==
    /\ LivePipeline(st)
    /\ PipelineArena(st)[PipelineOf(st)] \in rm.shaders

(* the stage's pair of slots is whole: the pipeline was built from the     *)
(* shader in the shader slot, and both are live                            *)
WholeStage(st) ==
    /\ ShaderOf(st) \in rm.shaders
    /\ LivePipeline(st)
    /\ PipelineArena(st)[PipelineOf(st)] = ShaderOf(st)

(* the bind group in the slot is live and was created for the pipeline in  *)
(* the pipeline slot and for the output texture, both live                 *)
FreshBindGroup(st) ==
    /\ BindGroupOf(st) \in DOMAIN rm.bind_groups
    /\ LivePipeline(st)
    /\ rm.bind_groups[BindGroupOf(st)].pipeline = PipelineOf(st)
    /\ rm.bind_groups[BindGroupOf(st)].stage = st
    /\ rm.bind_groups[BindGroupOf(st)].texture = game.output_texture
    /\ game.output_texture \in DOMAIN rm.textures

Compiled(log, st) ==
    \E i \in DOMAIN log :
        log[i].call = "new_shader" /\ log[i].stage = st /\ log[i].handle # None

CompileFailed(log, st) ==
    \E i \in DOMAIN log :
        log[i].call = "new_shader" /\ log[i].stage = st /\ log[i].handle = None

Names(ev, st) == \E i \in DOMAIN ev.paths : ev.paths[i].stem = st

DestroyCalls ==
    { "destroy_shader", "destroy_render_pipeline", "destroy_compute_pipeline",
      "destroy_bind_group" }

PipelineDestroyCalls == { "destroy_render_pipeline", "destroy_compute_pipeline" }

(* steps of the rendering thread, told apart from the watcher's *)
HotReloadStep == queue # <<>> /\ queue' = Tail(queue)

PrepareStep == phase = "idle" /\ phase' = "prepared"

(* the state is the one a hot_reload left, whose recompilation of st failed *)
AfterFailedReload(st) ==
    lastOp = "hot_reload" /\ status = "running" /\ CompileFailed(calls, st)

(* the state is the one a resize or a successful reload left *)
AfterChange ==
    /\ status = "running"
    /\ \/ lastOp = "resize"
       \/ lastOp = "hot_reload" /\ \E st \in Stages : Compiled(calls, st)

----------------------------------------------------------------------------
(* Properties *)

(* C1: in every state an operation has returned into, a non-empty pipeline *)
(* slot holds a pipeline that is live and was built from a shader that is  *)
(* still live.                                                             *)
C1_NoDanglingPipeline ==
    status = "running" =>
        \A st \in Stages : PipelineOf(st) # None => SoundPipeline(st)

(* C2: after a hot_reload whose recompilation of a stage failed, the       *)
(* shader slot and the pipeline slot of that stage are both None and the   *)
(* process has not terminated.                                             *)
C2_FailedReloadEmptiesSlots ==
    \A st \in Stages :
        (lastOp = "hot_reload" /\ CompileFailed(calls, st)) =>
            /\ status = "running"
            /\ ShaderOf(st) = None
            /\ PipelineOf(st) = None

(* C3: when prepare_rendering runs with an empty pipeline slot it does not *)
(* panic, it skips that stage, and the stage whose pipeline is present     *)
(* still gets its bind group.                                              *)
C3_AbsentStageSkipped ==
    (lastOp = "prepare_rendering" /\ \E st \in Stages : PipelineOf(st) = None) =>
        /\ status = "running"
        /\ \A st \in Stages : PipelineOf(st) # None => FreshBindGroup(st)

(* C4: no destroy call is ever issued on a handle that is not live.        *)
C4_NoInvalidDestroy ==
    \A i \in DOMAIN calls : calls[i].call \in DestroyCalls => calls[i].valid

(* C5: a reload destroys the pipeline before the shader: no live pipeline  *)
(* is destroyed right after the shader of its stage, that is, while its    *)
(* shader is already gone.                                                 *)
C5_PipelineDestroyedFirst ==
    lastOp = "hot_reload" =>
        \A i \in DOMAIN calls :
            (i > 1 /\ calls[i].call \in PipelineDestroyCalls /\ calls[i].valid) =>
                ~(calls[i - 1].call = "destroy_shader"
                    /\ calls[i - 1].stage = calls[i].stage)

(* C6: the prepare_rendering that follows a resize or a successful reload  *)
(* completes and leaves both bind groups live, each created for the        *)
(* pipeline now in its stage's slot and for the live output texture.       *)
C6_BindGroupsFreshAfterChange ==
    [][ (AfterChange /\ PrepareStep) =>
            (status' = "running" /\ \A st \in Stages : FreshBindGroup(st)') ]_vars

(* C7: wherever prepare_rendering or render can start, each stage's shader *)
(* slot and pipeline slot are both empty, or both live with the pipeline   *)
(* built from that shader.                                                 *)
C7_NoTornStage ==
    (status = "running" /\ phase \in {"idle", "prepared"}) =>
        \A st \in Stages :
            \/ ShaderOf(st) = None /\ PipelineOf(st) = None
            \/ WholeStage(st)

(* C8: a hot_reload taking an event that names no path of a stage leaves   *)
(* that stage's shader slot and pipeline slot unchanged and issues no call *)
(* for that stage.                                                         *)
C8_OtherStageUntouched ==
    [][ HotReloadStep =>
          \A st \in Stages :
            ~Names(Head(queue), st) =>
                /\ ShaderOf(st)' = ShaderOf(st)
                /\ PipelineOf(st)' = PipelineOf(st)
                /\ PipelineArena(st)' = PipelineArena(st)
                /\ \A i \in DOMAIN calls' : calls'[i].stage # st ]_vars

C8_Witness ==
    /\ lastOp = "hot_reload"
    /\ status = "running"
    /\ \E i \in DOMAIN calls : calls[i].stage = "compute"
    /\ \A i \in DOMAIN calls : calls[i].stage # "render"
    /\ WholeStage("render")

(* C9: after a hot_reload in which the recompilation of a stage succeeded, *)
(* the stage's pipeline slot holds a live pipeline whose handle differs    *)
(* from the one held before, and the shader held before is no longer live. *)
C9_SuccessfulReloadReplaces ==
    [][ HotReloadStep =>
          \A st \in Stages :
            Compiled(calls', st) =>
                /\ PipelineOf(st)' # PipelineOf(st)
                /\ LivePipeline(st)'
                /\ ShaderOf(st) # None => ShaderOf(st) \notin rm'.shaders ]_vars

C9_Witness ==
    /\ lastOp = "hot_reload"
    /\ status = "running"
    /\ Compiled(calls, "compute")
    /\ \E i \in DOMAIN calls :
          calls[i].call = "destroy_shader" /\ calls[i].stage = "compute" /\ calls[i].valid
    /\ LivePipeline("compute")

(* C10: after a hot_reload whose recompilation of a stage failed, the next *)
(* frame is prepared without the process terminating, and a hot_reload     *)
(* whose recompilation of that stage succeeds leaves it with a live shader *)
(* and a live pipeline built from it.                                      *)
C10_FailureRecoverable ==
    [][ \A st \in Stages :
          AfterFailedReload(st) =>
            /\ PrepareStep => status' = "running"
            /\ (HotReloadStep /\ Names(Head(queue), st) /\ Head(queue).kind = "Modify")
                  => (status' = "running" /\ (Compiled(calls', st) => WholeStage(st)')) ]_vars


----------------------------------------------------------------------------
(* Sizes, textures and frames *)

OutputSize == rm.textures[game.output_texture]

(* steps of the rendering thread that run resize, told apart from the      *)
(* watcher's by the queue they leave alone                                 *)
ResizeStep == lastOp' = "resize" /\ queue' = queue /\ phase = "idle"

CeilDiv(n, g) == (n + g - 1) \div g

(* workgroup dimensions compute.wgsl may declare; the file can be edited   *)
(* while the program runs                                                  *)
WorkgroupDims == { <<1, 1>>, <<8, 8>>, <<16, 4>> }

(* C11: after resize(w, h) the output texture, the CPU-side size of the    *)
(* global parameters and the size in their GPU buffer are all (w, h), and  *)
(* in every state between operations, from the initial 800x600 on, the     *)
(* three agree.                                                            *)
C11_SizesAgree ==
    status = "running" =>
        /\ game.output_texture \in DOMAIN rm.textures
        /\ OutputSize = game.globals_size
        /\ rm.globals_buffer = game.globals_size
        /\ lastOp = "new" => OutputSize = <<800, 600>>
        /\ lastOp = "resize" => OutputSize = rm.surface /\ rm.surface \in Resolutions

C11_Witness ==
    /\ lastOp = "resize"
    /\ status = "running"
    /\ OutputSize = <<1024, 768>>
    /\ rm.globals_buffer = <<1024, 768>>

(* C12: a resize to the size the resize just before it set leaves the      *)
(* output texture and the global parameters, CPU-side and in the buffer,   *)
(* as the first one left them.                                             *)
C12_ResizeIdempotent ==
    [][ (lastOp = "resize" /\ ResizeStep /\ rm'.surface = rm.surface) =>
            /\ rm'.textures = rm.textures
            /\ game'.output_texture = game.output_texture
            /\ game'.globals_size = game.globals_size
            /\ rm'.globals_buffer = rm.globals_buffer ]_vars

C12_Witness ==
    /\ lastOp = "resize"
    /\ status = "running"
    /\ rm.surface = <<1024, 768>>
    /\ OutputSize = rm.surface
    /\ game.globals_size = rm.surface

C14_ComputeThenRender ==
    (lastOp = "render" /\ status = "running") =>
        /\ Len(frame) = 4
        /\ frame[1] = Cmd("begin_compute_pass", game.compute_pipeline,
                          game.compute_bind_group, 0)
        /\ frame[2].cmd = "dispatch"
        /\ frame[3] = Cmd("begin_render_pass", game.render_pipeline,
                          game.render_bind_group, 0)
        /\ frame[4] = Cmd("draw", 3, 1, 0)
        /\ FreshBindGroup("compute") /\ FreshBindGroup("render")

C14_Witness ==
    /\ lastOp = "render"
    /\ status = "running"
    /\ Len(frame) = 4
    /\ frame[1].cmd = "begin_compute_pass"
    /\ frame[4].cmd = "draw"

(* C15 as stated: the dispatch grid is the output resolution ceiling-      *)
(* divided by the workgroup dimensions the shader declares.                *)
C15_GridCeilDivided ==
    (lastOp = "render" /\ status = "running") =>
        \A g \in WorkgroupDims :
            frame[2] = Cmd("dispatch", CeilDiv(OutputSize[1], g[1]),
                           CeilDiv(OutputSize[2], g[2]), 1)

(* C15 amended: the dispatch grid is the output resolution itself,         *)
(* (w, h, 1), one workgroup per output pixel, whatever workgroup           *)
(* dimensions the shader declares; it covers every output pixel for every  *)
(* resolution set by resize.                                               *)
C15_GridIsResolution ==
    (lastOp = "render" /\ status = "running") =>
        /\ frame[2] = Cmd("dispatch", OutputSize[1], OutputSize[2], 1)
        /\ \A g \in WorkgroupDims :
              /\ frame[2].a * g[1] >= OutputSize[1]
              /\ frame[2].b * g[2] >= OutputSize[2]

C15_Witness ==
    /\ lastOp = "render"
    /\ status = "running"
    /\ OutputSize = <<1024, 768>>
    /\ frame[2] = Cmd("dispatch", 1024, 768, 1)


----------------------------------------------------------------------------
(* Watcher, reload and ownership *)

Count(log, name, st) ==
    Cardinality({ i \in DOMAIN log : log[i].call = name /\ log[i].stage = st })

(* the paths of an event that hot_reload acts on *)
Effective(ev, st) ==
    { i \in DOMAIN ev.paths :
        ev.kind = "Modify" /\ ev.paths[i].resolves /\ ev.paths[i].stem = st }

Slots ==
    <<game.compute_shader, game.compute_pipeline, game.compute_bind_group,
      game.render_shader, game.render_pipeline, game.render_bind_group,
      game.output_texture>>

Held(handles) == handles \ {None}

(* C16: processing one change notification rebuilds a stage's shader and   *)
(* pipeline at most once, also when the notification lists the same path   *)
(* more than once.                                                         *)
C16_AtMostOneRebuild ==
    lastOp = "hot_reload" =>
        \A st \in Stages :
            /\ Count(calls, "new_shader", st) <= 1
            /\ Count(calls, "destroy_shader", st) <= 1

(* C17: a step of the watcher thread changes the notification queue and    *)
(* nothing else; every step that creates or destroys a GPU object is a     *)
(* step of the rendering thread; a hot_reload takes at most one pending    *)
(* event, and it runs to its end when the queue is empty.                  *)
C17_WatcherOnlyBuffers ==
    [][ /\ emitted' # emitted =>
              /\ queue' # queue
              /\ UNCHANGED <<game, rm, status, phase, calls, frame, lastOp>>
        /\ rm' # rm => emitted' = emitted
        /\ Len(queue') >= Len(queue) - 1
        /\ (lastOp' = "hot_reload" /\ queue = <<>> /\ queue' = <<>>) =>
              /\ status' = status
              /\ calls' = <<>> ]_vars

C17_Witness ==
    /\ lastOp = "hot_reload"
    /\ status = "running"
    /\ emitted = 2
    /\ Len(queue) = 1
    /\ calls # <<>>

(* C18: init issues no destroy call and compiles both shaders whatever the *)
(* outcome of the other; after init a stage's pipeline slot is non-empty   *)
(* exactly when its shader compiled, and then shader and pipeline are live *)
(* and belong together.                                                    *)
C18_InitBuildsBothStages ==
    lastOp = "init" =>
        /\ status = "running"
        /\ \A i \in DOMAIN calls : calls[i].call \notin DestroyCalls
        /\ \A st \in Stages :
              /\ Count(calls, "new_shader", st) = 1
              /\ (PipelineOf(st) # None) <=> (ShaderOf(st) # None)
              /\ (ShaderOf(st) # None) <=> Compiled(calls, st)
              /\ Compiled(calls, st) => WholeStage(st)

C18_Witness ==
    /\ lastOp = "init"
    /\ CompileFailed(calls, "render")
    /\ game.render_pipeline = None
    /\ WholeStage("compute")

(* C19: a hot_reload with no pending event, or taking an event that is not *)
(* a modification or whose paths all fail to resolve or name neither       *)
(* shader, issues no call and changes no slot; a path that is skipped does *)
(* not keep the other paths of the event from being processed.             *)
C19_NothingToRebuild ==
    [][ /\ (lastOp' = "hot_reload" /\ queue = <<>> /\ queue' = <<>>) =>
              (calls' = <<>> /\ Slots' = Slots /\ rm' = rm)
        /\ HotReloadStep =>
              \A st \in Stages :
                 /\ Effective(Head(queue), st) = {} =>
                       /\ Count(calls', "new_shader", st) = 0
                       /\ \A i \in DOMAIN calls' : calls'[i].stage # st
                       /\ ShaderOf(st)' = ShaderOf(st)
                       /\ PipelineOf(st)' = PipelineOf(st)
                       /\ BindGroupOf(st)' = BindGroupOf(st)
                 /\ (Effective(Head(queue), st) # {} /\ status' = "running") =>
                       Count(calls', "new_shader", st) >= 1
                 /\ game'.output_texture = game.output_texture
                 /\ rm'.textures = rm.textures
                 /\ rm'.bind_groups = rm.bind_groups ]_vars

C19_Witness ==
    /\ lastOp = "hot_reload"
    /\ status = "running"
    /\ emitted = 1
    /\ queue = <<>>
    /\ calls = <<>>
    /\ WholeStage("render") /\ WholeStage("compute")

(* C20: the live shaders, pipelines and bind groups are exactly the        *)
(* handles held in the slots, so each stage has at most one of each, and   *)
(* resize leaves the shader, pipeline and bind-group slots unchanged.      *)
LeakFree ==
    /\ rm.shaders = Held({game.render_shader, game.compute_shader})
    /\ DOMAIN rm.render_pipelines = Held({game.render_pipeline})
    /\ DOMAIN rm.compute_pipelines = Held({game.compute_pipeline})
    /\ DOMAIN rm.bind_groups = Held({game.render_bind_group, game.compute_bind_group})

C20_SlotsOwnLiveObjects ==
    [][ /\ status' = "running" => LeakFree'
        /\ ResizeStep => Slots' = Slots ]_vars


====
